---- MODULE Spec2Model ----
(***************************************************************************)
(* EmotionCombiner (backend/utils/emotion_combiner.py): the fusion of the  *)
(* per-modality emotion lists, the normalizer and the top-K filter; the    *)
(* /analyze handler of backend/app.py that calls the fusion; and calls     *)
(* that run concurrently on the one EmotionCombiner of the server.         *)
(*                                                                         *)
(* Numbers.  Python computes the confidences in binary floating point.     *)
(* Here a number is an exact rational <<n, d>> in lowest terms with d > 0, *)
(* so equal numbers are equal values.  Rounding of an IEEE double is not   *)
(* modelled: every equality of confidences below is an equality of the     *)
(* exact quotients.                                                        *)
(*                                                                         *)
(* Optional arguments.  A parameter that may be None is the record         *)
(* [is_none, list] (or [is_none, map]); the list of a None is empty.       *)
(***************************************************************************)
EXTENDS Integers, Sequences, FiniteSets, TLC

VARIABLES
    default_weights,   \* self.default_weights of the one EmotionCombiner
    text_emotions,     \* argument of combine_emotions
    audio_emotions,    \* argument of combine_emotions
    visual_emotions,   \* argument of combine_emotions
    weights,           \* argument of combine_emotions
    emotions,          \* argument of normalize_emotions / filter_top_emotions
    top_k,             \* argument of filter_top_emotions
    result,            \* what the call returned
    raised,            \* the exception the call let through to its caller
    omitted,           \* the modality the caller left out in a second call
    result_omitted,    \* what that second call returned
    pc,                \* where the caller is
    loaded,            \* app.py: initialize_models() has set the four globals
    request,           \* app.py: what the /analyze request carries
    results,           \* app.py: the dict `results` of the handler; a key
                       \* that is not set holds NoneList
    calls,             \* app.py: the calls the handler has made, in order
    response,          \* app.py: the status of the response, 0 before it
    threads            \* the calls in flight on the one EmotionCombiner, one
                       \* per request thread (app.run(threaded=True)): the
                       \* locals of each call

handlerVars == <<loaded, request, results, calls, response, threads>>

vars == <<default_weights, text_emotions, audio_emotions, visual_emotions,
          weights, emotions, top_k, result, raised, omitted, result_omitted,
          pc, handlerVars>>

----------------------------------------------------------------------------
(* Bounds of the model *)

\* most entries in the three lists of one combine_emotions call, together
MaxEntries == 3
\* longest list given to normalize_emotions and filter_top_emotions
MaxLen == 3
\* largest top_k tried
MaxTopK == 4

----------------------------------------------------------------------------
(* Exact rationals *)

Abs(x) == IF x < 0 THEN -x ELSE x

RECURSIVE GCD(_, _)
GCD(a, b) == IF b = 0 THEN a ELSE GCD(b, a % b)

\* n/d in lowest terms, d # 0
Rat(n, d) ==
    LET g == GCD(Abs(n), Abs(d))
        s == IF d < 0 THEN -1 ELSE 1
    IN  <<(s * n) \div g, (s * d) \div g>>

Num(i) == <<i, 1>>
Zero == Num(0)
RAdd(a, b) == Rat(a[1] * b[2] + b[1] * a[2], a[2] * b[2])
RMul(a, b) == Rat(a[1] * b[1], a[2] * b[2])
RDiv(a, b) == Rat(a[1] * b[2], a[2] * b[1])
RGt(a, b) == a[1] * b[2] > b[1] * a[2]
RGe(a, b) == a[1] * b[2] >= b[1] * a[2]

----------------------------------------------------------------------------
(* Values *)

\* an EmotionScore dict {'emotion': ..., 'confidence': ...}
Score(l, c) == [emotion |-> l, confidence |-> c]

NoneList == [is_none |-> TRUE, list |-> <<>>]
List(s) == [is_none |-> FALSE, list |-> s]

\* the empty dict
EmptyMap == [m \in {} |-> Zero]
NoWeights == [is_none |-> TRUE, map |-> EmptyMap]
Weights(m) == [is_none |-> FALSE, map |-> m]

\* self.default_weights as __init__ sets it
DefaultWeights ==
    [text |-> Rat(4, 10), audio |-> Rat(3, 10), visual |-> Rat(3, 10)]

\* `if text_emotions:` -- None and [] are both falsy
Truthy(arg) == ~arg.is_none /\ arg.list # <<>>

\* results before a modality has written to it (the keys 'version',
\* 'timestamp' and 'analysis_id' hold no emotions and are left out)
NoResults ==
    [text_emotions |-> NoneList, audio_emotions |-> NoneList,
     visual_emotions |-> NoneList, combined_emotions |-> NoneList]

NoRequest == [text |-> FALSE, audio |-> "absent", image |-> "absent"]

\* no /analyze request is being handled
HandlerIdle ==
    /\ loaded = TRUE
    /\ request = NoRequest
    /\ results = NoResults
    /\ calls = <<>>
    /\ response = 0
    /\ threads = <<>>

----------------------------------------------------------------------------
(* combine_emotions *)

\* (mutant) every argument becomes a source, falsy or not
EmotionSourcesUnfiltered(t, a, v) ==
    << <<"text", t>>, <<"audio", a>>, <<"visual", v>> >>

\* emotion_sources: the dict of the truthy arguments, in insertion order
\* (text, audio, visual), as a sequence of <<source, argument>>
EmotionSources(t, a, v) ==
    (IF Truthy(t) THEN << <<"text", t>> >> ELSE <<>>)
    \o (IF Truthy(a) THEN << <<"audio", a>> >> ELSE <<>>)
    \o (IF Truthy(v) THEN << <<"visual", v>> >> ELSE <<>>)

\* a dict has the key
HasKey(e, k) == k \in DOMAIN e

\* a confidence is a number <<n, d>>; a str in its place is the tuple <<s>>
IsNumber(c) == Len(c) = 2

\* the first entry of the list with the label, when there is one
FirstEntry(list, emotion) ==
    list[CHOOSE i \in DOMAIN list :
             /\ list[i].emotion = emotion
             /\ \A j \in 1..(i - 1) : list[j].emotion # emotion]

\* the exception the body of the try raises, "none" when it runs through:
\*   `for emotion in emotions` over a None is a TypeError;
\*   emotion['emotion'] (line 56) is a KeyError on an entry without the key,
\*   whichever entry of whichever source it is;
\*   e['confidence'] (line 67) is a KeyError on the first entry with a label
\*   when it has no such key, and emotion_score > 0 (line 71) is a TypeError
\*   when that confidence is a str; entries behind the first of a label are
\*   not read
Exception(sources) ==
    IF \E i \in DOMAIN sources : sources[i][2].is_none THEN "TypeError"
    ELSE IF \E i \in DOMAIN sources : \E j \in DOMAIN sources[i][2].list :
                ~HasKey(sources[i][2].list[j], "emotion")
    THEN "KeyError"
    ELSE LET first ==
                 UNION {{FirstEntry(sources[i][2].list,
                                    sources[i][2].list[j].emotion) :
                             j \in DOMAIN sources[i][2].list} :
                         i \in DOMAIN sources}
         IN  IF \E e \in first : ~HasKey(e, "confidence") THEN "KeyError"
             ELSE IF \E e \in first : ~IsNumber(e.confidence) THEN "TypeError"
             ELSE "none"

Raises(sources) == Exception(sources) # "none"

\* `except Exception` (lines 88, 119, 138) catches every exception of the
\* body: KeyError and TypeError are subclasses of Exception
ExceptException(exc) == exc \in {"KeyError", "TypeError"}

\* unique_emotions: every emotion['emotion'] of every source
UniqueEmotions(sources) ==
    UNION {{sources[i][2].list[j].emotion : j \in DOMAIN sources[i][2].list} :
        i \in DOMAIN sources}

\* the labels in the order `unique_emotions.add` first sees them: source
\* after source, entry after entry, a label seen before adding nothing
RECURSIVE FirstSeen(_, _)
FirstSeen(seen, labels) ==
    IF labels = <<>> THEN seen
    ELSE IF \E i \in DOMAIN seen : seen[i] = Head(labels)
         THEN FirstSeen(seen, Tail(labels))
         ELSE FirstSeen(Append(seen, Head(labels)), Tail(labels))

RECURSIVE InsertionSequence(_, _)
InsertionSequence(seen, sources) ==
    IF sources = <<>> THEN seen
    ELSE InsertionSequence(
             FirstSeen(seen, [j \in DOMAIN Head(sources)[2].list |->
                                 Head(sources)[2].list[j].emotion]),
             Tail(sources))

\* (mutant) a source the mapping does not name falls back to its default
\* weight
WeightsGetFallback(w, source) ==
    IF source \in DOMAIN w THEN w[source] ELSE DefaultWeights[source]

\* weights.get(source, 0)
WeightsGet(w, source) ==
    IF source \in DOMAIN w THEN w[source] ELSE Zero

\* str.lower() on the labels of the model
Lower(l) == IF l = "Happy" THEN "happy" ELSE l

\* (mutant) the entry is looked up ignoring letter case
RECURSIVE EmotionScoreIgnoreCase(_, _)
EmotionScoreIgnoreCase(list, emotion) ==
    IF list = <<>> THEN Zero
    ELSE IF Lower(Head(list).emotion) = Lower(emotion)
         THEN Head(list).confidence
    ELSE EmotionScoreIgnoreCase(Tail(list), emotion)

\* (mutant) the last entry with the label supplies the score
RECURSIVE EmotionScoreLast(_, _)
EmotionScoreLast(list, emotion) ==
    IF list = <<>> THEN Zero
    ELSE IF \E i \in DOMAIN Tail(list) : Tail(list)[i].emotion = emotion
         THEN EmotionScoreLast(Tail(list), emotion)
    ELSE IF Head(list).emotion = emotion THEN Head(list).confidence
    ELSE Zero

\* next((e['confidence'] for e in emotions if e['emotion'] == emotion), 0):
\* the confidence of the first entry with that (exact) label, else 0
RECURSIVE EmotionScore(_, _)
EmotionScore(list, emotion) ==
    IF list = <<>> THEN Zero
    ELSE IF Head(list).emotion = emotion THEN Head(list).confidence
    ELSE EmotionScore(Tail(list), emotion)

\* (mutant) the weight of a source is added also when the source is silent
\* on the emotion, so silent sources dilute the mean
RECURSIVE AccumulateDiluted(_, _, _, _)
AccumulateDiluted(sources, w, emotion, acc) ==
    IF sources = <<>> THEN acc
    ELSE LET source == Head(sources)[1]
             emotion_score == EmotionScore(Head(sources)[2].list, emotion)
             next == IF RGt(emotion_score, Zero)
                     THEN <<RAdd(acc[1], RMul(emotion_score, WeightsGet(w, source))),
                            RAdd(acc[2], WeightsGet(w, source))>>
                     ELSE <<acc[1], RAdd(acc[2], WeightsGet(w, source))>>
         IN  AccumulateDiluted(Tail(sources), w, emotion, next)

\* (mutant) a source votes with any score that is not negative, 0 included
RECURSIVE AccumulateNonNegative(_, _, _, _)
AccumulateNonNegative(sources, w, emotion, acc) ==
    IF sources = <<>> THEN acc
    ELSE LET source == Head(sources)[1]
             emotion_score == EmotionScore(Head(sources)[2].list, emotion)
             next == IF RGe(emotion_score, Zero)
                     THEN <<RAdd(acc[1], RMul(emotion_score, WeightsGet(w, source))),
                            RAdd(acc[2], WeightsGet(w, source))>>
                     ELSE acc
         IN  AccumulateNonNegative(Tail(sources), w, emotion, next)

\* the inner loop over emotion_sources.items(): <<weighted_sum, total_weight>>
RECURSIVE Accumulate(_, _, _, _)
Accumulate(sources, w, emotion, acc) ==
    IF sources = <<>> THEN acc
    ELSE LET source == Head(sources)[1]
             emotion_score == EmotionScore(Head(sources)[2].list, emotion)
             next == IF RGt(emotion_score, Zero)
                     THEN <<RAdd(acc[1], RMul(emotion_score, WeightsGet(w, source))),
                            RAdd(acc[2], WeightsGet(w, source))>>
                     ELSE acc
         IN  Accumulate(Tail(sources), w, emotion, next)

\* (mutant) the weighted sum is stored without the division by total_weight
RECURSIVE CombinedEmotionsUndivided(_, _, _)
CombinedEmotionsUndivided(sources, w, order) ==
    IF order = <<>> THEN <<>>
    ELSE LET acc == Accumulate(sources, w, Head(order), <<Zero, Zero>>)
             rest == CombinedEmotionsUndivided(sources, w, Tail(order))
         IN  IF RGt(acc[2], Zero)
             THEN << <<Head(order), acc[1]>> >> \o rest
             ELSE rest

\* (mutant) an emotion whose total_weight is 0 is kept, with confidence 0
RECURSIVE CombinedEmotionsKeepZero(_, _, _)
CombinedEmotionsKeepZero(sources, w, order) ==
    IF order = <<>> THEN <<>>
    ELSE LET acc == Accumulate(sources, w, Head(order), <<Zero, Zero>>)
             rest == CombinedEmotionsKeepZero(sources, w, Tail(order))
         IN  IF RGt(acc[2], Zero)
             THEN << <<Head(order), RDiv(acc[1], acc[2])>> >> \o rest
             ELSE << <<Head(order), Zero>> >> \o rest

\* combined_emotions: the dict filled in the iteration order of
\* unique_emotions, as the sequence of its items <<emotion, confidence>>
RECURSIVE CombinedEmotions(_, _, _)
CombinedEmotions(sources, w, order) ==
    IF order = <<>> THEN <<>>
    ELSE LET acc == Accumulate(sources, w, Head(order), <<Zero, Zero>>)
             rest == CombinedEmotions(sources, w, Tail(order))
         IN  IF RGt(acc[2], Zero)
             THEN << <<Head(order), RDiv(acc[1], acc[2])>> >> \o rest
             ELSE rest

\* (mutant) the label is lowercased on the way out
ResultItemLower(emotion, confidence) == Score(Lower(emotion), confidence)

\* {'emotion': emotion, 'confidence': confidence} of the result list
ResultItem(emotion, confidence) == Score(emotion, confidence)

\* [ResultItem for emotion, confidence in combined_emotions.items()]
ResultList(items) ==
    [i \in DOMAIN items |-> ResultItem(items[i][1], items[i][2])]

\* (mutant) reverse=True left out: the sort is ascending
RECURSIVE InsertAscending(_, _)
InsertAscending(sorted, e) ==
    IF sorted = <<>> THEN <<e>>
    ELSE IF RGe(e.confidence, Head(sorted).confidence)
         THEN <<Head(sorted)>> \o InsertAscending(Tail(sorted), e)
         ELSE <<e>> \o sorted

\* one step of a stable descending sort: e goes behind every entry whose
\* confidence is at least its own
RECURSIVE InsertDescending(_, _)
InsertDescending(sorted, e) ==
    IF sorted = <<>> THEN <<e>>
    ELSE IF RGe(Head(sorted).confidence, e.confidence)
         THEN <<Head(sorted)>> \o InsertDescending(Tail(sorted), e)
         ELSE <<e>> \o sorted

\* sorted(list, key=lambda x: x['confidence'], reverse=True): stable
RECURSIVE SortFrom(_, _)
SortFrom(sorted, list) ==
    IF list = <<>> THEN sorted
    ELSE SortFrom(InsertDescending(sorted, Head(list)), Tail(list))

SortedByConfidence(list) == SortFrom(<<>>, list)

\* the orders in which a set of str can be iterated: the order follows the
\* hashes of the strings, which differ from process to process
IterationOrders(S) ==
    {o \in [1..Cardinality(S) -> S] : \A i, j \in DOMAIN o : i # j => o[i] # o[j]}

\* combine_emotions(text_emotions, audio_emotions, visual_emotions, weights),
\* with unique_emotions iterated in `order`; an exception ends in
\* `except Exception: return []`
combine_emotions(dw, t, a, v, w, order) ==
    LET used == IF w.is_none THEN dw ELSE w.map
        emotion_sources == EmotionSources(t, a, v)
    IN  IF emotion_sources = <<>> THEN <<>>
        ELSE IF Raises(emotion_sources) THEN <<>>
        ELSE SortedByConfidence(
                 ResultList(CombinedEmotions(emotion_sources, used, order)))

\* every list the call can return
CombineResults(dw, t, a, v, w) ==
    IF Raises(EmotionSources(t, a, v)) THEN {<<>>}
    ELSE {combine_emotions(dw, t, a, v, w, order) :
             order \in IterationOrders(UniqueEmotions(EmotionSources(t, a, v)))}

\* the exception that leaves combine_emotions: the one of the body unless
\* the except clause catches it
CombineRaised(t, a, v) ==
    LET exc == Exception(EmotionSources(t, a, v))
    IN  IF ExceptException(exc) THEN "none" ELSE exc

----------------------------------------------------------------------------
(* The calls tried *)

Sources == {"text", "audio", "visual"}

\* "Happy" and "happy" differ only in letter case
Labels == {"Happy", "happy", "sad"}

\* confidences (percent) in the lists given to combine_emotions
Confidences == {0, 40, 80}

\* the entries tried: two labels at every confidence, and one entry that
\* spells a label with a capital
Entries ==
    {Score(l, Num(c)) : l \in {"happy", "sad"}, c \in Confidences}
    \cup {Score("Happy", Num(80))}

\* confidences in the lists given to normalize_emotions and
\* filter_top_emotions: a source may hand over values outside 0..100
SignedConfidences == {-40, 0, 40, 80}

SignedEntries == {Score(l, Num(c)) : l \in Labels, c \in SignedConfidences}

SignedLists(n) == UNION {[1..k -> SignedEntries] : k \in 0..n}

\* the lists of at most n entries
Lists(n) == UNION {[1..k -> Entries] : k \in 0..n}

Half == Rat(1, 2)

\* weight configurations: "text" weighted 0, a mapping that leaves
\* "visual" out, and a mapping that leaves "text" out
CustomWeights ==
    {[m \in Sources |-> IF m = "text" THEN Zero ELSE Half],
     [m \in {"text", "audio"} |-> Half],
     [m \in {"audio", "visual"} |-> Half]}

WeightConfigs == {NoWeights} \cup {Weights(m) : m \in CustomWeights}

\* an empty list is handed over as [] or left at the default None
Arg(list, absent) == IF list = <<>> THEN absent ELSE List(list)

ArgOf(m) ==
    IF m = "text" THEN text_emotions
    ELSE IF m = "audio" THEN audio_emotions
    ELSE visual_emotions

\* the weight the call uses for source m
WeightOf(m) ==
    WeightsGet(IF weights.is_none THEN default_weights ELSE weights.map, m)

\* top_k: int = 5
DefaultTopK == 5

InitCombine ==
    /\ default_weights = DefaultWeights
    /\ \E t \in Lists(MaxEntries) :
        \E a \in Lists(MaxEntries - Len(t)) :
          \E v \in Lists(MaxEntries - Len(t) - Len(a)) :
            \E absent \in {NoneList, List(<<>>)} :
              /\ text_emotions = Arg(t, absent)
              /\ audio_emotions = Arg(a, absent)
              /\ visual_emotions = Arg(v, absent)
    /\ weights \in WeightConfigs
    /\ emotions = NoneList
    /\ top_k = DefaultTopK
    /\ result = <<>>
    /\ raised = "none"
    /\ HandlerIdle
    /\ omitted = "none"
    /\ result_omitted = <<>>
    /\ pc = "combine"

\* result = emotion_combiner.combine_emotions(text, audio, visual, weights)
CombineEmotions ==
    /\ pc = "combine"
    /\ result' \in CombineResults(default_weights, text_emotions,
                                  audio_emotions, visual_emotions, weights)
    /\ raised' = CombineRaised(text_emotions, audio_emotions, visual_emotions)
    /\ pc' = "combined"
    /\ UNCHANGED <<default_weights, text_emotions, audio_emotions,
                   visual_emotions, weights, emotions, top_k, omitted,
                   result_omitted>>
    /\ UNCHANGED handlerVars

\* the arguments of the second call: [] in the place of the list of m
Without(m, n) == IF m = n THEN List(<<>>) ELSE ArgOf(n)

\* the labels both insertion sequences start with
CommonPrefix(s1, s2) ==
    {s1[i] : i \in {k \in DOMAIN s1 \cap DOMAIN s2 :
                        \A j \in 1..k : s1[j] = s2[j]}}

Position(order, x) == CHOOSE i \in DOMAIN order : order[i] = x

\* two iteration orders that keep the labels of P in the same relative order
AgreeOn(P, order1, order2) ==
    \A x, y \in P :
        (Position(order1, x) < Position(order1, y))
            <=> (Position(order2, x) < Position(order2, y))

\* the caller calls again, in the same process, with [] in the place of
\* the list of a source m whose weight is 0, the other arguments as before.
\* The few labels of a call sit in a hash table that is never resized,
\* each in a slot that depends on its hash and on the labels added before
\* it: the labels added alike in both calls (the common prefix of the two
\* insertion sequences) are iterated in the same relative order in both,
\* the other labels fall anywhere.
CombineOmitting(m) ==
    /\ pc = "combined"
    /\ Truthy(ArgOf(m))
    /\ WeightOf(m) = Zero
    /\ LET first == EmotionSources(text_emotions, audio_emotions,
                                   visual_emotions)
           second == EmotionSources(Without(m, "text"), Without(m, "audio"),
                                    Without(m, "visual"))
           P == CommonPrefix(InsertionSequence(<<>>, first),
                             InsertionSequence(<<>>, second))
           \* the orders the first call can have iterated in
           orders1 == {order1 \in IterationOrders(UniqueEmotions(first)) :
                          combine_emotions(default_weights, text_emotions,
                              audio_emotions, visual_emotions, weights, order1)
                          = result}
           \* the orders the second call can then iterate in
           orders2 == {order2 \in IterationOrders(UniqueEmotions(second)) :
                          \E order1 \in orders1 : AgreeOn(P, order1, order2)}
       IN  result_omitted' \in
               {combine_emotions(default_weights, Without(m, "text"),
                    Without(m, "audio"), Without(m, "visual"), weights, order2) :
                    order2 \in orders2}
    /\ omitted' = m
    /\ pc' = "compared"
    /\ UNCHANGED <<default_weights, text_emotions, audio_emotions,
                   visual_emotions, weights, emotions, top_k, result, raised>>
    /\ UNCHANGED handlerVars

NextCombine ==
    \/ CombineEmotions
    \/ \E m \in Sources : CombineOmitting(m)

SpecCombine == InitCombine /\ [][NextCombine]_vars

\* one call of combine_emotions and nothing after it
NextCombineOnce == CombineEmotions

SpecCombineOnce == InitCombine /\ [][NextCombineOnce]_vars

\* most entries in the lists of a call that is handed malformed entries
MaxMalformedEntries == 2

\* entries that are no EmotionScore: one without the label key, one without
\* the confidence key, one whose confidence is a str
MalformedEntries ==
    {[confidence |-> Num(80)], [emotion |-> "happy"],
     [emotion |-> "happy", confidence |-> <<"high">>]}

AnyLists(n) == UNION {[1..k -> Entries \cup MalformedEntries] : k \in 0..n}

\* a call with the default weights whose text and audio lists may hold
\* malformed entries
InitMalformed ==
    /\ default_weights = DefaultWeights
    /\ \E t \in AnyLists(MaxMalformedEntries) :
        \E a \in AnyLists(MaxMalformedEntries - Len(t)) :
            /\ text_emotions = List(t)
            /\ audio_emotions = List(a)
    /\ visual_emotions = List(<<>>)
    /\ weights = NoWeights
    /\ emotions = NoneList
    /\ top_k = DefaultTopK
    /\ result = <<>>
    /\ raised = "none"
    /\ HandlerIdle
    /\ omitted = "none"
    /\ result_omitted = <<>>
    /\ pc = "combine"

SpecMalformed == InitMalformed /\ [][NextCombineOnce]_vars

----------------------------------------------------------------------------
(* normalize_emotions *)

\* sum(e['confidence'] for e in emotions)
RECURSIVE TotalConfidence(_)
TotalConfidence(list) ==
    IF list = <<>> THEN Zero
    ELSE RAdd(Head(list).confidence, TotalConfidence(Tail(list)))

\* (mutant) the factor 100 left out: the confidences sum to 1
NormalizedFraction(list, total_confidence) ==
    [i \in DOMAIN list |->
        Score(list[i].emotion, RDiv(list[i].confidence, total_confidence))]

\* the loop that appends (confidence / total_confidence) * 100 per entry
Normalized(list, total_confidence) ==
    [i \in DOMAIN list |->
        Score(list[i].emotion,
              RMul(RDiv(list[i].confidence, total_confidence), Num(100)))]

\* (mutant) a list whose confidences sum to 0 is answered with []
NormalizeEmptyOnZero(arg) ==
    IF arg.is_none \/ arg.list = <<>> THEN <<>>
    ELSE LET total_confidence == TotalConfidence(arg.list)
         IN  IF total_confidence = Zero THEN <<>>
             ELSE Normalized(arg.list, total_confidence)

\* normalize_emotions(emotions)
normalize_emotions(arg) ==
    IF arg.is_none \/ arg.list = <<>> THEN <<>>
    ELSE LET total_confidence == TotalConfidence(arg.list)
         IN  IF total_confidence = Zero THEN arg.list
             ELSE Normalized(arg.list, total_confidence)

InitNormalize ==
    /\ default_weights = DefaultWeights
    /\ text_emotions = NoneList
    /\ audio_emotions = NoneList
    /\ visual_emotions = NoneList
    /\ weights = NoWeights
    /\ emotions \in {NoneList} \cup {List(l) : l \in SignedLists(MaxLen)}
    /\ top_k = DefaultTopK
    /\ result = <<>>
    /\ raised = "none"
    /\ HandlerIdle
    /\ omitted = "none"
    /\ result_omitted = <<>>
    /\ pc = "normalize"

\* result = emotion_combiner.normalize_emotions(emotions)
NormalizeEmotions ==
    /\ pc = "normalize"
    /\ result' = normalize_emotions(emotions)
    /\ pc' = "normalized"
    /\ UNCHANGED <<default_weights, text_emotions, audio_emotions,
                   visual_emotions, weights, emotions, top_k, raised, omitted,
                   result_omitted>>
    /\ UNCHANGED handlerVars

NextNormalize == NormalizeEmotions

SpecNormalize == InitNormalize /\ [][NextNormalize]_vars

----------------------------------------------------------------------------
(* filter_top_emotions *)

\* (mutant) the slice runs one entry too far
SliceInclusive(list, k) ==
    SubSeq(list, 1, IF k + 1 < Len(list) THEN k + 1 ELSE Len(list))

\* list[:k]: the first k entries, all of them when there are fewer; a
\* negative k counts from the end
Slice(list, k) ==
    LET n == IF k >= 0 THEN (IF k < Len(list) THEN k ELSE Len(list))
             ELSE (IF Len(list) + k > 0 THEN Len(list) + k ELSE 0)
    IN  SubSeq(list, 1, n)

\* filter_top_emotions(emotions, top_k), emotions a list
filter_top_emotions(list, k) ==
    LET sorted_emotions == SortedByConfidence(list)
    IN  Slice(sorted_emotions, k)

InitFilter ==
    /\ default_weights = DefaultWeights
    /\ text_emotions = NoneList
    /\ audio_emotions = NoneList
    /\ visual_emotions = NoneList
    /\ weights = NoWeights
    /\ emotions \in {List(l) : l \in SignedLists(MaxLen)}
    /\ top_k \in (-1)..MaxTopK
    /\ result = <<>>
    /\ raised = "none"
    /\ HandlerIdle
    /\ omitted = "none"
    /\ result_omitted = <<>>
    /\ pc = "filter"

\* result = emotion_combiner.filter_top_emotions(emotions, top_k)
FilterTopEmotions ==
    /\ pc = "filter"
    /\ result' = filter_top_emotions(emotions.list, top_k)
    /\ pc' = "filtered"
    /\ UNCHANGED <<default_weights, text_emotions, audio_emotions,
                   visual_emotions, weights, emotions, top_k, raised, omitted,
                   result_omitted>>
    /\ UNCHANGED handlerVars

NextFilter == FilterTopEmotions

SpecFilter == InitFilter /\ [][NextFilter]_vars

----------------------------------------------------------------------------
(* app.py: the /analyze handler (analyze_emotions)                         *)

\* what an analyzer returns: a list it has built, or [] after an error of
\* its own (every analyze_emotion catches its exceptions)
AnalyzerOutputs ==
    {<<>>,
     <<Score("happy", Num(80))>>,
     <<Score("sad", Num(80)), Score("happy", Num(40))>>}

\* an upload is absent, has a file name that Config.allowed_file refuses,
\* or is allowed
Uploads == {"absent", "refused", "allowed"}

Requests == [text : BOOLEAN, audio : Uploads, image : Uploads]

\* (mutant) the value is dropped instead of stored
CollectNothing(res, key, value) == res

\* results[key] = value
Collect(res, key, value) == [res EXCEPT ![key] = List(value)]

\* results.get(key, [])
ResultsGet(res, key) == IF res[key].is_none THEN List(<<>>) ELSE res[key]

\* a request arrives; the globals are set when the server was started by
\* the __main__ block, and all None when app is served without it
InitAnalyze ==
    /\ default_weights = DefaultWeights
    /\ text_emotions = NoneList
    /\ audio_emotions = NoneList
    /\ visual_emotions = NoneList
    /\ weights = NoWeights
    /\ emotions = NoneList
    /\ top_k = DefaultTopK
    /\ result = <<>>
    /\ raised = "none"
    /\ omitted = "none"
    /\ result_omitted = <<>>
    /\ loaded \in BOOLEAN
    /\ request \in Requests
    /\ results = NoResults
    /\ calls = <<>>
    /\ response = 0
    /\ threads = <<>>
    /\ pc = "text"

combineVars ==
    <<default_weights, text_emotions, audio_emotions, visual_emotions,
      weights, emotions, top_k, result, raised, omitted, result_omitted>>

\* lines 100-104: the text, when the form has one that is not blank
AnalyzeText ==
    /\ pc = "text"
    /\ IF request.text
       THEN IF loaded
            THEN \E out \in AnalyzerOutputs :
                     /\ results' = Collect(results, "text_emotions", out)
                     /\ calls' = Append(calls, "text_analyzer.analyze_emotion")
            ELSE /\ results' = Collect(results, "text_emotions", <<>>)
                 /\ calls' = calls
       ELSE UNCHANGED <<results, calls>>
    /\ pc' = "audio"
    /\ UNCHANGED <<combineVars, loaded, request, response, threads>>

\* lines 106-120: the audio upload is saved to a temporary file and
\* analysed; the file is removed in the finally
AnalyzeAudio ==
    /\ pc = "audio"
    /\ IF request.audio = "allowed"
       THEN IF loaded
            THEN \E out \in AnalyzerOutputs :
                     /\ results' = Collect(results, "audio_emotions", out)
                     /\ calls' = Append(calls, "audio_analyzer.analyze_emotion")
            ELSE /\ results' = Collect(results, "audio_emotions", <<>>)
                 /\ calls' = calls
       ELSE UNCHANGED <<results, calls>>
    /\ pc' = "image"
    /\ UNCHANGED <<combineVars, loaded, request, response, threads>>

\* lines 111-113 raise (the temporary file cannot be made or written): no
\* except stands around them but the one of the handler, lines 164-166
AnalyzeAudioFails ==
    /\ pc = "audio"
    /\ request.audio = "allowed"
    /\ response' = 500
    /\ pc' = "done"
    /\ UNCHANGED <<combineVars, loaded, request, results, calls, threads>>

\* lines 122-149: the image upload is saved, preprocessed and analysed;
\* a failed preprocessing and any exception of the block give []
AnalyzeImage ==
    /\ pc = "image"
    /\ IF request.image = "allowed"
       THEN \/ /\ loaded
               /\ \E out \in AnalyzerOutputs :
                      /\ results' = Collect(results, "visual_emotions", out)
                      /\ calls' = calls \o <<"visual_analyzer.preprocess_image",
                                            "visual_analyzer.analyze_emotion">>
            \* preprocess_image returns None (lines 137-139)
            \/ /\ loaded
               /\ results' = Collect(results, "visual_emotions", <<>>)
               /\ calls' = Append(calls, "visual_analyzer.preprocess_image")
            \* the file cannot be saved (lines 142-144), or visual_analyzer
            \* is None (lines 140-141)
            \/ /\ results' = Collect(results, "visual_emotions", <<>>)
               /\ calls' = calls
       ELSE UNCHANGED <<results, calls>>
    /\ pc' = "combine"
    /\ UNCHANGED <<combineVars, loaded, request, response, threads>>

\* lines 151-158: combine_emotions on what the modalities have left in
\* results, when emotion_combiner is set
AnalyzeCombine ==
    /\ pc = "combine"
    /\ IF loaded
       THEN /\ text_emotions' = ResultsGet(results, "text_emotions")
            /\ audio_emotions' = ResultsGet(results, "audio_emotions")
            /\ visual_emotions' = ResultsGet(results, "visual_emotions")
            /\ \E combined \in CombineResults(default_weights, text_emotions',
                                   audio_emotions', visual_emotions', weights) :
                   /\ result' = combined
                   /\ results' = Collect(results, "combined_emotions", combined)
            /\ raised' = CombineRaised(text_emotions', audio_emotions',
                                       visual_emotions')
            /\ calls' = Append(calls, "emotion_combiner.combine_emotions")
       ELSE UNCHANGED <<text_emotions, audio_emotions, visual_emotions,
                        result, results, raised, calls>>
    /\ pc' = "respond"
    /\ UNCHANGED <<default_weights, weights, emotions, top_k, omitted,
                   result_omitted, loaded, request, response, threads>>

\* lines 160-162: return jsonify(results)
AnalyzeRespond ==
    /\ pc = "respond"
    /\ response' = 200
    /\ pc' = "done"
    /\ UNCHANGED <<combineVars, loaded, request, results, calls, threads>>

NextAnalyze ==
    \/ AnalyzeText
    \/ AnalyzeAudio
    \/ AnalyzeAudioFails
    \/ AnalyzeImage
    \/ AnalyzeCombine
    \/ AnalyzeRespond

SpecAnalyze == InitAnalyze /\ [][NextAnalyze]_vars

----------------------------------------------------------------------------
(* Concurrent calls on the one EmotionCombiner.  The server runs each      *)
(* request in a thread of its own and every thread calls the methods of    *)
(* the same emotion_combiner object.  Two calls run here, step by step and *)
(* interleaved, both on the same list object `emotions`; a call reads      *)
(* self.default_weights and the list when its step runs, not before.       *)

\* longest list the two calls share
MaxSharedLen == 2

Threads == {1, 2}

Methods == {"combine_emotions", "normalize_emotions", "filter_top_emotions"}

\* the locals of a call that has not started
Frame(method, list) ==
    [method |-> method, pc |-> "start", given |-> list, unique_emotions |-> {},
     items |-> <<>>, total_confidence |-> Zero, result |-> <<>>]

\* (mutant) emotions.sort(...) in the place of sorted(emotions, ...): the
\* argument itself is sorted
ArgumentAfterSort(list) == SortedByConfidence(list)

\* sorted(emotions, ...) builds a new list: the argument stays as it is
ArgumentAfterSorted(list) == list

InitConcurrent ==
    /\ default_weights = DefaultWeights
    /\ text_emotions = NoneList
    /\ audio_emotions = NoneList
    /\ visual_emotions = NoneList
    /\ weights = NoWeights
    /\ emotions \in {List(l) : l \in Lists(MaxSharedLen)}
    /\ top_k = DefaultTopK
    /\ result = <<>>
    /\ raised = "none"
    /\ omitted = "none"
    /\ result_omitted = <<>>
    /\ loaded = TRUE
    /\ request = NoRequest
    /\ results = NoResults
    /\ calls = <<>>
    /\ response = 0
    /\ \E m1, m2 \in Methods :
           threads = <<Frame(m1, emotions.list), Frame(m2, emotions.list)>>
    /\ pc = "running"

sharedUnchanged ==
    <<default_weights, text_emotions, audio_emotions, visual_emotions,
      weights, emotions, top_k, result, raised, omitted, result_omitted,
      pc, loaded, request, results, calls, response>>

notThreads ==
    <<default_weights, text_emotions, audio_emotions, visual_emotions,
      weights, top_k, result, raised, omitted, result_omitted,
      pc, loaded, request, results, calls, response>>

\* combine_emotions(emotions), lines 37-56: weights = self.default_weights
\* (the dict itself, no copy), emotion_sources, unique_emotions
CombineCollect(t) ==
    /\ threads[t].method = "combine_emotions"
    /\ threads[t].pc = "start"
    /\ LET emotion_sources == EmotionSources(emotions, NoneList, NoneList)
       IN  threads' =
               IF emotion_sources = <<>>
               THEN [threads EXCEPT ![t].pc = "done", ![t].result = <<>>]
               ELSE [threads EXCEPT ![t].pc = "loop",
                        ![t].unique_emotions = UniqueEmotions(emotion_sources)]
    /\ UNCHANGED sharedUnchanged

\* lines 59-76: the loop reads the list and, through `weights`,
\* self.default_weights as they are now
CombineLoop(t) ==
    /\ threads[t].method = "combine_emotions"
    /\ threads[t].pc = "loop"
    /\ \E order \in IterationOrders(threads[t].unique_emotions) :
           threads' = [threads EXCEPT ![t].pc = "sort",
                          ![t].items = CombinedEmotions(
                               << <<"text", emotions>> >>, default_weights, order)]
    /\ UNCHANGED sharedUnchanged

\* lines 79-86: the result list, sorted, is returned
CombineSort(t) ==
    /\ threads[t].method = "combine_emotions"
    /\ threads[t].pc = "sort"
    /\ threads' = [threads EXCEPT ![t].pc = "done",
                      ![t].result = SortedByConfidence(ResultList(threads[t].items))]
    /\ UNCHANGED sharedUnchanged

\* normalize_emotions(emotions), lines 103-108: [] for an empty list, the
\* sum, and the list itself when the sum is 0
NormalizeSum(t) ==
    /\ threads[t].method = "normalize_emotions"
    /\ threads[t].pc = "start"
    /\ threads' =
           IF emotions.list = <<>>
           THEN [threads EXCEPT ![t].pc = "done", ![t].result = <<>>]
           ELSE IF TotalConfidence(emotions.list) = Zero
           THEN [threads EXCEPT ![t].pc = "done", ![t].result = emotions.list]
           ELSE [threads EXCEPT ![t].pc = "scale",
                    ![t].total_confidence = TotalConfidence(emotions.list)]
    /\ UNCHANGED sharedUnchanged

\* lines 110-117: the list is read again, entry by entry
NormalizeScale(t) ==
    /\ threads[t].method = "normalize_emotions"
    /\ threads[t].pc = "scale"
    /\ threads' = [threads EXCEPT ![t].pc = "done",
                      ![t].result = Normalized(emotions.list,
                                               threads[t].total_confidence)]
    /\ UNCHANGED sharedUnchanged

\* filter_top_emotions(emotions, top_k), line 135
FilterSort(t) ==
    /\ threads[t].method = "filter_top_emotions"
    /\ threads[t].pc = "start"
    /\ threads' = [threads EXCEPT ![t].pc = "slice",
                      ![t].items = SortedByConfidence(emotions.list)]
    /\ emotions' = List(ArgumentAfterSorted(emotions.list))
    /\ UNCHANGED notThreads

\* line 136
FilterSlice(t) ==
    /\ threads[t].method = "filter_top_emotions"
    /\ threads[t].pc = "slice"
    /\ threads' = [threads EXCEPT ![t].pc = "done",
                      ![t].result = Slice(threads[t].items, top_k)]
    /\ UNCHANGED sharedUnchanged

NextConcurrent ==
    \E t \in Threads :
        \/ CombineCollect(t)
        \/ CombineLoop(t)
        \/ CombineSort(t)
        \/ NormalizeSum(t)
        \/ NormalizeScale(t)
        \/ FilterSort(t)
        \/ FilterSlice(t)

SpecConcurrent == InitConcurrent /\ [][NextConcurrent]_vars

----------------------------------------------------------------------------
(* What the claims speak of, stated on the arguments of the call *)

Returned == pc \in {"combined", "compared"}

\* the modality handed over a nonempty list
Active(m) == ~ArgOf(m).is_none /\ Len(ArgOf(m).list) > 0

ActiveSources == {m \in Sources : Active(m)}

\* the labels in the list of source m
LabelsOf(m) == {ArgOf(m).list[i].emotion : i \in DOMAIN ArgOf(m).list}

\* the score of label L in a list: that of its first entry, 0 when absent
ListScore(list, L) ==
    LET at == {i \in DOMAIN list : list[i].emotion = L}
    IN  IF at = {} THEN Zero
        ELSE list[CHOOSE i \in at : \A j \in at : i <= j].confidence

\* source m votes for L: it is active and scores L above 0
Votes(m, L) == Active(m) /\ ListScore(ArgOf(m).list, L)[1] > 0

Voters(L) == {m \in Sources : Votes(m, L)}

WeightedTerm(m, L) ==
    IF Votes(m, L) THEN RMul(ListScore(ArgOf(m).list, L), WeightOf(m)) ELSE Zero

WeightTerm(m, L) == IF Votes(m, L) THEN WeightOf(m) ELSE Zero

WeightedSum(L) ==
    RAdd(RAdd(WeightedTerm("text", L), WeightedTerm("audio", L)),
         WeightedTerm("visual", L))

TotalWeight(L) ==
    RAdd(RAdd(WeightTerm("text", L), WeightTerm("audio", L)),
         WeightTerm("visual", L))

ResultLabels(list) == {list[i].emotion : i \in DOMAIN list}

----------------------------------------------------------------------------
(* C1: every label of the returned list carries                            *)
(* weighted_sum(L) / total_weight(L), both sums taken over the active      *)
(* sources that score L above 0; a label with exactly one positively       *)
(* weighted voter keeps that voter's score.                                *)
C1_WeightedMean ==
    Returned =>
        \A i \in DOMAIN result :
            LET L == result[i].emotion
                positive == {m \in Voters(L) : WeightOf(m)[1] > 0}
            IN  /\ TotalWeight(L)[1] > 0
                /\ RMul(result[i].confidence, TotalWeight(L)) = WeightedSum(L)
                /\ \A m \in positive :
                       positive = {m} =>
                           result[i].confidence = ListScore(ArgOf(m).list, L)

\* a label two sources vote for with different scores and unequal
\* weights, while a third active source is silent on it
C1_Witness ==
    /\ pc = "combined"
    /\ \E i \in DOMAIN result :
           /\ Cardinality(Voters(result[i].emotion)) = 2
           /\ ActiveSources = Sources
           /\ result[i].confidence[2] # 1

----------------------------------------------------------------------------
\* a list with distinct labels and positive, strictly descending confidences
StrictDistribution(list) ==
    /\ \A i \in DOMAIN list : list[i].confidence[1] > 0
    /\ \A i, j \in DOMAIN list :
           i < j => /\ list[i].emotion # list[j].emotion
                    /\ RGt(list[i].confidence, list[j].confidence)
                    /\ list[i].confidence # list[j].confidence

(* C2 as stated: with exactly one source handing over a nonempty list, the *)
(* call returns that list unchanged, whatever the weights.                 *)
C2_SingleSourceIdentity ==
    pc = "combined" =>
        \A m \in Sources : ActiveSources = {m} => result = ArgOf(m).list

(* C2, amended: with exactly one source handing over a nonempty list, the  *)
(* call returns that list unchanged when the source's weight is positive   *)
(* and the list has distinct labels and positive, strictly descending      *)
(* confidences.                                                            *)
C2_SingleSourceIdentityAmended ==
    pc = "combined" =>
        \A m \in Sources :
            (/\ ActiveSources = {m}
             /\ WeightOf(m)[1] > 0
             /\ StrictDistribution(ArgOf(m).list))
            => result = ArgOf(m).list

\* one source alone, with custom weights, handing over two entries
C2_Witness ==
    /\ pc = "combined"
    /\ ~weights.is_none
    /\ \E m \in Sources :
           /\ ActiveSources = {m}
           /\ WeightOf(m)[1] > 0
           /\ StrictDistribution(ArgOf(m).list)
           /\ Len(ArgOf(m).list) = 2
           /\ result = ArgOf(m).list

----------------------------------------------------------------------------
(* C3 as stated: the call with a source weighted 0 and the call with that  *)
(* source's list replaced by [] return the same list.                      *)
C3_ZeroWeightIsOmission ==
    pc = "compared" => result_omitted = result

(* C3, amended: the two calls return the same entries (labels and          *)
(* confidences), position by position the same confidences; the lists may  *)
(* differ only in the order of entries of equal confidence.                *)
C3_ZeroWeightIsOmissionUpToTies ==
    pc = "compared" =>
        /\ Len(result_omitted) = Len(result)
        /\ {result_omitted[i] : i \in DOMAIN result_omitted}
               = {result[i] : i \in DOMAIN result}
        /\ \A i \in DOMAIN result :
               result_omitted[i].confidence = result[i].confidence

\* the source weighted 0 votes for a label that another source carries
\* into the result
C3_Witness ==
    /\ pc = "compared"
    /\ omitted \in Sources
    /\ \E L \in ResultLabels(result) :
           /\ Votes(omitted, L)
           /\ Cardinality(Voters(L)) >= 2

----------------------------------------------------------------------------
(* C4: a source whose list is empty or None abstains.  With no nonempty    *)
(* list the call returns []; otherwise the empty and None arguments take   *)
(* nothing away: every label that a positively weighted source scores      *)
(* above 0 is in the returned list.                                        *)
C4_AbsentAbstains ==
    pc = "combined" =>
        /\ ActiveSources = {} => result = <<>>
        /\ \A L \in Labels :
               (\E m \in Voters(L) : WeightOf(m)[1] > 0)
                   => L \in ResultLabels(result)

\* a None beside a source that brings a label into the result
C4_Witness ==
    /\ pc = "combined"
    /\ \E m \in Sources : ArgOf(m).is_none
    /\ ActiveSources # {}
    /\ result # <<>>

----------------------------------------------------------------------------
(* C5: every label of the returned list is a label of the list of some     *)
(* active source.                                                          *)
C5_NoInventedLabels ==
    Returned =>
        ResultLabels(result) \subseteq UNION {LabelsOf(m) : m \in ActiveSources}

\* "Happy" is returned where no source says "happy", and a label of the
\* sources is left out
C5_Witness ==
    /\ pc = "combined"
    /\ "Happy" \in ResultLabels(result)
    /\ "happy" \notin UNION {LabelsOf(m) : m \in ActiveSources}
    /\ ResultLabels(result) # UNION {LabelsOf(m) : m \in ActiveSources}

----------------------------------------------------------------------------
\* the order of str: "Happy" < "happy" < "sad"
LabelRank(l) == IF l = "Happy" THEN 1 ELSE IF l = "happy" THEN 2 ELSE 3

(* C6 as stated: the returned list is sorted by confidence descending and  *)
(* entries of equal confidence are in label order.                         *)
C6_SortedTiesByLabel ==
    Returned =>
        \A i, j \in DOMAIN result :
            i < j =>
                \/ /\ RGt(result[i].confidence, result[j].confidence)
                   /\ result[i].confidence # result[j].confidence
                \/ /\ result[i].confidence = result[j].confidence
                   /\ LabelRank(result[i].emotion) < LabelRank(result[j].emotion)

(* C6, amended: the returned list is sorted by confidence descending;      *)
(* nothing is said of the order of entries of equal confidence.            *)
C6_SortedDescending ==
    Returned =>
        \A i, j \in DOMAIN result :
            i < j => RGe(result[i].confidence, result[j].confidence)

\* three entries: one ahead, two tied behind it
C6_Witness ==
    /\ pc = "combined"
    /\ Len(result) = 3
    /\ result[1].confidence # result[2].confidence
    /\ result[2].confidence = result[3].confidence

----------------------------------------------------------------------------
\* the list without the entries that spell L in another letter case
WithoutOtherCase(list, L) ==
    SelectSeq(list, LAMBDA e : e.emotion = L \/ Lower(e.emotion) # Lower(L))

ExactTerm(m, L) ==
    LET score == ListScore(WithoutOtherCase(ArgOf(m).list, L), L)
    IN  IF Active(m) /\ score[1] > 0
        THEN <<RMul(score, WeightOf(m)), WeightOf(m)>>
        ELSE <<Zero, Zero>>

(* C7 as stated: labels that differ only in letter case are one label: the *)
(* returned labels are lowercase and no two of them differ only in case.   *)
C7_CaseInsensitive ==
    Returned =>
        /\ \A i \in DOMAIN result : result[i].emotion = Lower(result[i].emotion)
        /\ \A i, j \in DOMAIN result :
               i # j => Lower(result[i].emotion) # Lower(result[j].emotion)

(* C7, amended: labels are reconciled by exact spelling.  Every returned   *)
(* label is spelled as in a source, and its confidence is the weighted     *)
(* mean of the entries spelled exactly so: entries that differ from it in  *)
(* letter case have no part in it.                                         *)
C7_CaseSensitive ==
    Returned =>
        \A i \in DOMAIN result :
            LET L == result[i].emotion
                sum == RAdd(RAdd(ExactTerm("text", L)[1], ExactTerm("audio", L)[1]),
                            ExactTerm("visual", L)[1])
                total == RAdd(RAdd(ExactTerm("text", L)[2], ExactTerm("audio", L)[2]),
                              ExactTerm("visual", L)[2])
            IN  /\ \E m \in ActiveSources : L \in LabelsOf(m)
                /\ RMul(result[i].confidence, total) = sum

\* "Happy" and "happy" are both returned, with different confidences
C7_Witness ==
    /\ pc = "combined"
    /\ \E i, j \in DOMAIN result :
           /\ result[i].emotion = "Happy"
           /\ result[j].emotion = "happy"
           /\ result[i].confidence # result[j].confidence

----------------------------------------------------------------------------
\* the sum of the confidences of a list, entry by entry
SumOf(list) ==
    LET upto[i \in 0..Len(list)] ==
            IF i = 0 THEN Zero ELSE RAdd(upto[i - 1], list[i].confidence)
    IN  upto[Len(list)]

NonemptyInput == ~emotions.is_none /\ Len(emotions.list) > 0

(* C8 as stated: for every nonempty input of normalize_emotions the        *)
(* confidences of the returned list sum to 100.                            *)
C8_SumsTo100 ==
    (pc = "normalized" /\ NonemptyInput) => SumOf(result) = Num(100)

(* C8, amended: for every nonempty input whose confidences do not sum to 0 *)
(* the returned list has the labels of the input in the input's order,     *)
(* each confidence is confidence / sum * 100, and they sum to 100.         *)
C8_SumsTo100UnlessZero ==
    (pc = "normalized" /\ NonemptyInput /\ SumOf(emotions.list) # Zero) =>
        /\ SumOf(result) = Num(100)
        /\ Len(result) = Len(emotions.list)
        /\ \A i \in DOMAIN result :
               /\ result[i].emotion = emotions.list[i].emotion
               /\ RMul(result[i].confidence, SumOf(emotions.list))
                      = RMul(emotions.list[i].confidence, Num(100))

\* a list with a negative entry is rescaled to a sum of 100
C8_Witness ==
    /\ pc = "normalized"
    /\ Len(emotions.list) >= 2
    /\ SumOf(emotions.list) # Zero
    /\ \E i \in DOMAIN emotions.list : emotions.list[i].confidence[1] < 0
    /\ SumOf(result) = Num(100)
    /\ result # emotions.list

----------------------------------------------------------------------------
(* C9: normalize_emotions answers [] to the empty list, and a nonempty     *)
(* list whose confidences sum to exactly 0 with that list unchanged.       *)
C9_DegenerateInputs ==
    pc = "normalized" =>
        /\ (~emotions.is_none /\ emotions.list = <<>>) => result = <<>>
        /\ (NonemptyInput /\ SumOf(emotions.list) = Zero)
               => result = emotions.list

\* confidences that are not 0 and sum to 0
C9_Witness ==
    /\ pc = "normalized"
    /\ Len(emotions.list) >= 2
    /\ emotions.list[1].confidence # Zero
    /\ SumOf(emotions.list) = Zero
    /\ result = emotions.list

----------------------------------------------------------------------------
(* C10: for k > 0, filter_top_emotions(emotions, k) returns at most        *)
(* min(k, len(emotions)) entries, sorted by confidence descending.         *)
C10_TopK ==
    (pc = "filtered" /\ top_k > 0) =>
        /\ Len(result) <= top_k
        /\ Len(result) <= Len(emotions.list)
        /\ \A i, j \in DOMAIN result :
               i < j => RGe(result[i].confidence, result[j].confidence)

\* an unsorted list longer than k is cut to k entries
C10_Witness ==
    /\ pc = "filtered"
    /\ top_k >= 2
    /\ top_k < Len(emotions.list)
    /\ Len(result) = top_k
    /\ \E i, j \in DOMAIN emotions.list :
           /\ i < j
           /\ RGt(emotions.list[j].confidence, emotions.list[i].confidence)

----------------------------------------------------------------------------
\* the labels observed in the lists of the active sources
Observed == UNION {LabelsOf(m) : m \in ActiveSources}

(* C14 as stated: an observed label is left out of the returned list       *)
(* exactly when every active source scores it at exactly 0; a label that   *)
(* some active source scores above 0 is returned.                          *)
C14_OmittedIffAllZero ==
    pc = "combined" =>
        \A L \in Observed :
            (L \notin ResultLabels(result))
                <=> (\A m \in ActiveSources : ListScore(ArgOf(m).list, L) = Zero)

(* C14, amended: an observed label is left out of the returned list        *)
(* exactly when total_weight(L) is 0, that is when no active source of     *)
(* positive weight scores it above 0; every other observed label is        *)
(* returned.                                                               *)
C14_OmittedIffNoWeight ==
    pc = "combined" =>
        \A L \in Observed :
            LET unweighted == TotalWeight(L) = Zero
            IN  /\ (L \notin ResultLabels(result)) <=> unweighted
                /\ unweighted <=> ~(\E m \in Voters(L) : WeightOf(m)[1] > 0)

\* of two labels that sources score above 0, one is returned and the other,
\* whose only voters weigh 0, is left out; a third label scored 0 is left out
C14_Witness ==
    /\ pc = "combined"
    /\ \E L1, L2, L3 \in Observed :
           /\ L1 \in ResultLabels(result)
           /\ Voters(L2) # {}
           /\ L2 \notin ResultLabels(result)
           /\ Voters(L3) = {}
           /\ L3 \notin ResultLabels(result)

----------------------------------------------------------------------------
\* the list without the entries whose label an earlier entry carries
FirstOccurrences(list) ==
    LET keep == {i \in DOMAIN list :
                    \A j \in DOMAIN list : j < i => list[j].emotion # list[i].emotion}
        upto[i \in 0..Len(list)] ==
            IF i = 0 THEN <<>>
            ELSE IF i \in keep THEN Append(upto[i - 1], list[i]) ELSE upto[i - 1]
    IN  upto[Len(list)]

FirstOccurrencesOf(arg) ==
    IF arg.is_none THEN arg ELSE List(FirstOccurrences(arg.list))

\* source m repeats label L, the later entry with another confidence
Repeats(m, L) ==
    /\ Active(m)
    /\ \E i, j \in DOMAIN ArgOf(m).list :
           /\ i < j
           /\ ArgOf(m).list[i].emotion = L
           /\ ArgOf(m).list[j].emotion = L
           /\ ArgOf(m).list[i].confidence # ArgOf(m).list[j].confidence

(* C15: no label is twice in the returned list, also when a list repeats a *)
(* label; the later entries of a repeated label are ignored: the call      *)
(* returns what it returns for the lists cut down to the first entry of    *)
(* each label, and a label with one positively weighted voter carries the  *)
(* confidence of that voter's first entry for it.                          *)
C15_OncePerLabelFirstEntry ==
    pc = "combined" =>
        /\ \A i, j \in DOMAIN result :
               i # j => result[i].emotion # result[j].emotion
        /\ (\E m \in Sources : FirstOccurrencesOf(ArgOf(m)) # ArgOf(m)) =>
               result \in CombineResults(default_weights,
                              FirstOccurrencesOf(text_emotions),
                              FirstOccurrencesOf(audio_emotions),
                              FirstOccurrencesOf(visual_emotions), weights)
        /\ \A i \in DOMAIN result :
               LET L == result[i].emotion
                   positive == {m \in Voters(L) : WeightOf(m)[1] > 0}
               IN  \A m \in positive :
                       positive = {m} =>
                           result[i].confidence = FirstOccurrences(
                               SelectSeq(ArgOf(m).list,
                                         LAMBDA e : e.emotion = L))[1].confidence

\* a source repeats a label with two confidences, beside another label, and
\* the repeated label is returned once, with the confidence of its first entry
C15_Witness ==
    /\ pc = "combined"
    /\ Len(result) = 2
    /\ \E m \in Sources : \E i \in DOMAIN result :
           /\ Repeats(m, result[i].emotion)
           /\ Voters(result[i].emotion) = {m}
           /\ result[i].confidence = ListScore(ArgOf(m).list, result[i].emotion)

----------------------------------------------------------------------------
\* the active sources that a custom mapping names
Named == {m \in ActiveSources : m \in DOMAIN weights.map}

NamedVoters(L) == Voters(L) \cap Named

\* the sum of f over the named voters of L
NamedSum(L, f(_)) ==
    LET term(m) == IF m \in NamedVoters(L) THEN f(m) ELSE Zero
    IN  RAdd(RAdd(term("text"), term("audio")), term("visual"))

MapWeight(m) == weights.map[m]

\* every label of the returned list carries the weighted mean of the
\* sources the mapping names, with the weights of the mapping
MeanOfNamed ==
    \A i \in DOMAIN result :
        LET L == result[i].emotion
            Weighted(m) == RMul(ListScore(ArgOf(m).list, L), MapWeight(m))
        IN  /\ NamedVoters(L) # {}
            /\ RMul(result[i].confidence, NamedSum(L, MapWeight))
                   = NamedSum(L, Weighted)

(* C16 as stated: with a custom mapping, an active source the mapping does *)
(* not name weighs 0 and has no influence: the call returns the same list  *)
(* as the call without that source's list; a mapping that names no active  *)
(* source gives [].                                                        *)
C16_UnnamedHasNoInfluence ==
    /\ (pc = "combined" /\ ~weights.is_none) =>
           /\ MeanOfNamed
           /\ Named = {} => result = <<>>
    /\ (pc = "compared" /\ ~weights.is_none /\ omitted \notin DOMAIN weights.map)
           => result_omitted = result

(* C16, amended: with a custom mapping, an active source the mapping does  *)
(* not name weighs 0: the confidences are the weighted means over the      *)
(* named sources alone, the call returns the same entries as the call      *)
(* without that source's list, position by position the same confidences,  *)
(* and the lists may differ only in the order of entries of equal          *)
(* confidence; a mapping that names no active source gives [].             *)
C16_UnnamedWeighsNothing ==
    /\ (pc = "combined" /\ ~weights.is_none) =>
           /\ MeanOfNamed
           /\ Named = {} => result = <<>>
    /\ (pc = "compared" /\ ~weights.is_none /\ omitted \notin DOMAIN weights.map)
           => /\ Len(result_omitted) = Len(result)
              /\ \A i \in DOMAIN result :
                     /\ result_omitted[i].confidence = result[i].confidence
                     /\ \E j \in DOMAIN result_omitted :
                            result_omitted[j] = result[i]

\* the source left out of the mapping votes, with another score, for a label
\* that a named source carries into the result, and brings a label of its
\* own that is not returned
C16_Witness ==
    /\ pc = "compared"
    /\ ~weights.is_none
    /\ omitted \notin DOMAIN weights.map
    /\ \E i \in DOMAIN result :
           /\ Votes(omitted, result[i].emotion)
           /\ ListScore(ArgOf(omitted).list, result[i].emotion)
                  # result[i].confidence
    /\ \E L \in LabelsOf(omitted) :
           /\ Votes(omitted, L)
           /\ L \notin ResultLabels(result)

\* only sources that the mapping does not name hand over a list
C16_WitnessNoneNamed ==
    /\ pc = "combined"
    /\ ~weights.is_none
    /\ ActiveSources # {}
    /\ Named = {}
    /\ result = <<>>

----------------------------------------------------------------------------
\* an EmotionScore has a label and a number as confidence
WellFormed(e) ==
    /\ HasKey(e, "emotion")
    /\ HasKey(e, "confidence")
    /\ IsNumber(e.confidence)

\* some list handed to the call holds an entry that is no EmotionScore
MalformedInput ==
    \E m \in Sources : \E i \in DOMAIN ArgOf(m).list :
        ~WellFormed(ArgOf(m).list[i])

(* C11 as stated: when a list handed to combine_emotions holds a malformed *)
(* entry (no label key, or a confidence that is no number), the call ends  *)
(* in an exception that reaches the caller; it returns no list.            *)
C11_MalformedFails ==
    (pc = "combined" /\ MalformedInput) => raised # "none"

\* what the call does instead: no exception leaves it; it returns [], or,
\* when every malformed entry stands behind a well-formed entry of its
\* label, the list the well-formed entries give
C11_MalformedIsSwallowed ==
    (pc = "combined" /\ MalformedInput) =>
        /\ raised = "none"
        /\ Raises(EmotionSources(text_emotions, audio_emotions, visual_emotions))
               => result = <<>>

\* an entry without the label key beside a well-formed entry: the call
\* returns [] and raises nothing
C11_Witness ==
    /\ pc = "combined"
    /\ \E m \in Sources : \E i, j \in DOMAIN ArgOf(m).list :
           /\ ~HasKey(ArgOf(m).list[i], "emotion")
           /\ WellFormed(ArgOf(m).list[j])
           /\ ArgOf(m).list[j].confidence[1] > 0
    /\ result = <<>>
    /\ raised = "none"

\* a str confidence behind a well-formed entry of its label: the call
\* returns a nonempty list
C11_WitnessShadowed ==
    /\ pc = "combined"
    /\ MalformedInput
    /\ result # <<>>
    /\ raised = "none"

----------------------------------------------------------------------------
\* the modalities whose input the request carries in a form the handler
\* accepts
Present ==
    {m \in Sources : \/ m = "text" /\ request.text
                     \/ m = "audio" /\ request.audio = "allowed"
                     \/ m = "visual" /\ request.image = "allowed"}

ResultsKey(m) ==
    IF m = "text" THEN "text_emotions"
    ELSE IF m = "audio" THEN "audio_emotions"
    ELSE "visual_emotions"

AnalyzerCall(m) ==
    IF m = "text" THEN "text_analyzer.analyze_emotion"
    ELSE IF m = "audio" THEN "audio_analyzer.analyze_emotion"
    ELSE "visual_analyzer.analyze_emotion"

\* the positions of the calls of combine_emotions among the calls made
CombineCalls ==
    {i \in DOMAIN calls : calls[i] = "emotion_combiner.combine_emotions"}

InvokedBefore(m, i) == \E j \in 1..(i - 1) : calls[j] = AnalyzerCall(m)

Collected(m) == ~results[ResultsKey(m)].is_none

(* C12 as stated: when the handler calls combine_emotions, the analyzer of *)
(* every modality whose input is present has been invoked and its result   *)
(* collected; and a request that has ended has called combine_emotions     *)
(* exactly once, whatever path it took.                                    *)
C12_AllSourcesThenCombineOnce ==
    /\ \A i \in CombineCalls : \A m \in Present :
           InvokedBefore(m, i) /\ Collected(m)
    /\ pc = "done" => Cardinality(CombineCalls) = 1

(* C12, amended: combine_emotions is the last call the handler makes and   *)
(* is called at most once; when it is called, every modality whose input   *)
(* is present has left a list in results (the analyzer's, or [] when the  *)
(* image could not be saved or preprocessed), the text and audio analyzers *)
(* of present inputs have been invoked, and the lists in results are the   *)
(* arguments of the call.  A request that has ended has called it exactly  *)
(* once when the models are loaded and the response is 200, and not at all *)
(* otherwise.                                                              *)
C12_SourcesThenCombineAtMostOnce ==
    /\ Cardinality(CombineCalls) <= 1
    /\ \A i \in CombineCalls :
           /\ i = Len(calls)
           /\ \A m \in Present :
                  /\ Collected(m)
                  /\ m # "visual" => InvokedBefore(m, i)
           /\ text_emotions = ResultsGet(results, "text_emotions")
           /\ audio_emotions = ResultsGet(results, "audio_emotions")
           /\ visual_emotions = ResultsGet(results, "visual_emotions")
    /\ pc = "done" =>
           (Cardinality(CombineCalls) = 1 <=> (loaded /\ response = 200))

\* a request with the three inputs: the three analyzers, then
\* combine_emotions, then the response
C12_Witness ==
    /\ pc = "done"
    /\ Present = Sources
    /\ response = 200
    /\ Len(calls) = 5
    /\ CombineCalls = {5}
    /\ Len(result) = 2

----------------------------------------------------------------------------
\* the lists the call of a thread returns when it runs alone on the list it
\* was given
Alone(frame) ==
    IF frame.method = "combine_emotions"
    THEN CombineResults(DefaultWeights, List(frame.given), NoneList, NoneList,
                        NoWeights)
    ELSE IF frame.method = "normalize_emotions"
    THEN {normalize_emotions(List(frame.given))}
    ELSE {filter_top_emotions(frame.given, top_k)}

(* C13: the three methods write no shared state: self.default_weights and  *)
(* the list handed to the calls (its entries too) stay as they were, and   *)
(* in every interleaving of two calls each call returns a list it can      *)
(* return when it runs alone.                                              *)
C13_NoSharedWrites ==
    pc = "running" =>
        /\ default_weights = DefaultWeights
        /\ \A t \in Threads :
               /\ emotions = List(threads[t].given)
               /\ threads[t].pc = "done" => threads[t].result \in Alone(threads[t])

\* normalize_emotions has summed the list, filter_top_emotions has then run
\* from start to end on the same unsorted list, and normalize_emotions has
\* ended after it
C13_Witness ==
    /\ pc = "running"
    /\ \E t, u \in Threads :
           /\ threads[t].method = "normalize_emotions"
           /\ threads[u].method = "filter_top_emotions"
           /\ threads[t].pc = "done"
           /\ threads[u].pc = "done"
           /\ Len(threads[t].result) = 2
           /\ threads[u].result # emotions.list
           /\ threads[t].result # emotions.list

====
